---- MODULE Spec2Model ----
(***************************************************************************)
(* Model of src/main.py: one run of the scheduled WhatsApp poll script.    *)
(* A run validates its configuration, reads the Finnish date and weekday,  *)
(* GETs the schedule document, resolves today's message, builds the        *)
(* payload and POSTs it.  Python values are tagged records so that None,   *)
(* a str and a (url, message) tuple stay distinct values.                  *)
(***************************************************************************)
EXTENDS Integers, Sequences, FiniteSets

VARIABLES env, sanity, pc, current_date, current_day, schedule_data, result,
          url, message, payload, gets, posts, post_url, post_body,
          response, exit

vars == <<env, sanity, pc, current_date, current_day, schedule_data, result,
          url, message, payload, gets, posts, post_url, post_body,
          response, exit>>

(* ------------------------------ bounds --------------------------------- *)
\* longest canceledDays / exceptionDays / trainingDays list given to the
\* resolver when it is exercised on its own
MaxEntries == 2
\* longest such list in the document the schedule store holds during a run
MaxFetched == 1
\* longest message, in words, handed to build_payload on its own
MaxWords == 2

(* --------------------------- Python values ----------------------------- *)
\* a local that has not been assigned yet
Unset == [tag |-> "unset"]
None == [tag |-> "None"]
Str(s) == [tag |-> "str", val |-> s]
Tuple2(a, b) == [tag |-> "tuple", fst |-> a, snd |-> b]

(* ----------------------------- constants ------------------------------- *)
POSITIVE_ANSWER == "Kyllä"
NEGATIVE_ANSWER == "Ei"
CANCEL_TEXT == "Huom, tänään treeni peruttu!"
EXCEPTION_TEXT == "Tänään poikkeukselliset treenit."
STANDARD_TEXT == "Tänään vääntämään klo"
\* the source text starts with a cross-mark emoji (one code point), written X here
MESSAGE_ERROR == "X Invalid schedule data structure"
USE_SAMPLE_RESPONSE == FALSE

\* f"{GREENAPI_URL}/waInstance{GREENAPI_INSTANCE_ID}/sendPoll/{GREENAPI_API_TOKEN}"
API_URL_POLL(e) ==
    e.GREENAPI_URL \o "/waInstance" \o e.GREENAPI_INSTANCE_ID
        \o "/sendPoll/" \o e.GREENAPI_API_TOKEN

\* f"{GREENAPI_URL}/waInstance{GREENAPI_INSTANCE_ID}/sendMessage/{GREENAPI_API_TOKEN}"
API_URL_MESSAGE(e) ==
    e.GREENAPI_URL \o "/waInstance" \o e.GREENAPI_INSTANCE_ID
        \o "/sendMessage/" \o e.GREENAPI_API_TOKEN

(* ------------------------------ inputs --------------------------------- *)
\* os.environ.get(NAME, ""): every setting is either absent (empty) or set
Envs ==
    [GREENAPI_URL : {"", "https://api.green-api.com"},
     GREENAPI_INSTANCE_ID : {"", "1101"},
     GREENAPI_API_TOKEN : {"", "tok"},
     CHAT_ID : {"", "12036@g.us"},
     SANITY_SCHEDULE_URL : {"", "https://sanity.io/q"}]

Dates == {"2026-07-01", "2025-08-12"}
WeekDays == {"tuesday", "saturday"}
\* start-time strings of a stored document, the cancellation text itself among them
StartTimes == {"18:00", CANCEL_TEXT}

Range(seq) == {seq[i] : i \in 1..Len(seq)}

SeqsUpTo(S, n) == UNION {[1..k -> S] : k \in 0..n}

CanceledDay == [date : Dates]
ExceptionDay(times) == [date : Dates, startTime : times]
TrainingDay(times) == [weekDay : [key : WeekDays], startTime : times]

AllDays(n, times) ==
    [canceledDays : SeqsUpTo(CanceledDay, n),
     exceptionDays : SeqsUpTo(ExceptionDay(times), n),
     trainingDays : SeqsUpTo(TrainingDay(times), n)]

\* a JSON document: without the result field, with an empty result, or with
\* one allDays object in result
Docs(n, times) ==
    {[query |-> "allDays"]}
        \cup [query : {"allDays"}, result : SeqsUpTo(AllDays(n, times), 1)]

SAMPLE_RESPONSE ==
    [query |-> "allDays",
     result |-> <<[
        canceledDays |-> <<[date |-> "2026-07-01"], [date |-> "2025-08-11"],
                           [date |-> "2025-09-23"], [date |-> "2025-12-23"]>>,
        exceptionDays |-> <<[date |-> "2026-07-01", startTime |-> "18:00"],
                            [date |-> "2025-08-12", startTime |-> "18:00"],
                            [date |-> "2025-09-22", startTime |-> "18:00"],
                            [date |-> "2025-12-22", startTime |-> "18:00"]>>,
        trainingDays |-> <<[weekDay |-> [key |-> "tuesday"], startTime |-> "18:00"],
                           [weekDay |-> [key |-> "saturday"], startTime |-> "12:00"]>>
     ]>>]

(* ------------------------- pure functions ------------------------------ *)
\* the least / greatest index of seq whose element is in the set hits
MinIndex(seq, hits) ==
    CHOOSE i \in 1..Len(seq) : seq[i] \in hits /\ \A j \in 1..(i - 1) : seq[j] \notin hits
MaxIndex(seq, hits) ==
    CHOOSE i \in 1..Len(seq) : seq[i] \in hits /\ \A j \in (i + 1)..Len(seq) : seq[j] \notin hits

first_exception_Last(exception_days, date) ==
    exception_days[MaxIndex(exception_days, {d \in Range(exception_days) : d.date = date})]

\* line 125: next(d for d in exception_days if d['date'] == current_date)
first_exception(exception_days, date) ==
    exception_days[MinIndex(exception_days, {d \in Range(exception_days) : d.date = date})]

first_training_Head(training_days, day_of_week) == training_days[1]

\* line 131: next(td for td in training_days if td['weekDay']['key'] == day_of_week)
first_training(training_days, day_of_week) ==
    training_days[MinIndex(training_days,
        {td \in Range(training_days) : td.weekDay.key = day_of_week})]

\* line 127: f"{EXCEPTION_TEXT} {STANDARD_TEXT} {start_time}?"
exception_poll_message(start_time) ==
    EXCEPTION_TEXT \o " " \o STANDARD_TEXT \o " " \o start_time \o "?"

standard_poll_message_NoPrefix(start_time) == start_time

\* line 133: f"{STANDARD_TEXT} {start_time}?"
standard_poll_message(start_time) == STANDARD_TEXT \o " " \o start_time \o "?"

get_message_for_current_day_ExceptionFirst(data, date, day_of_week, e) ==
    IF "result" \notin DOMAIN data \/ data.result = <<>>
    THEN Str(MESSAGE_ERROR)
    ELSE LET all_days == data.result[1]
         IN  IF date \in {d.date : d \in Range(all_days.exceptionDays)}
             THEN Tuple2(Str(API_URL_POLL(e)),
                         Str(exception_poll_message(
                                first_exception(all_days.exceptionDays, date).startTime)))
             ELSE IF date \in {d.date : d \in Range(all_days.canceledDays)}
             THEN Tuple2(Str(API_URL_MESSAGE(e)), Str(CANCEL_TEXT))
             ELSE IF \E td \in Range(all_days.trainingDays) : td.weekDay.key = day_of_week
             THEN Tuple2(Str(API_URL_POLL(e)),
                         Str(standard_poll_message(
                                first_training(all_days.trainingDays, day_of_week).startTime)))
             ELSE None

get_message_for_current_day(data, date, day_of_week, e) ==
    IF "result" \notin DOMAIN data \/ data.result = <<>>
    THEN Str(MESSAGE_ERROR)
    ELSE LET all_days == data.result[1]
             training_days == all_days.trainingDays
             canceled_days == all_days.canceledDays
             exception_days == all_days.exceptionDays
         IN  IF date \in {d.date : d \in Range(canceled_days)}
             THEN Tuple2(Str(API_URL_MESSAGE(e)), Str(CANCEL_TEXT))
             ELSE IF date \in {d.date : d \in Range(exception_days)}
             THEN Tuple2(Str(API_URL_POLL(e)),
                         Str(exception_poll_message(
                                first_exception(exception_days, date).startTime)))
             ELSE IF \E td \in Range(training_days) : td.weekDay.key = day_of_week
             THEN Tuple2(Str(API_URL_POLL(e)),
                         Str(standard_poll_message(
                                first_training(training_days, day_of_week).startTime)))
             ELSE None

build_payload_AlwaysPoll(m, e) ==
    IF m = None
    THEN None
    ELSE [chatId |-> e.CHAT_ID, message |-> m.val, multipleAnswers |-> FALSE,
          options |-> <<[optionName |-> POSITIVE_ANSWER],
                        [optionName |-> NEGATIVE_ANSWER]>>]

build_payload(m, e) ==
    IF m = None
    THEN None
    ELSE IF m = Str(CANCEL_TEXT)
    THEN [chatId |-> e.CHAT_ID, message |-> m.val]
    ELSE [chatId |-> e.CHAT_ID, message |-> m.val, multipleAnswers |-> FALSE,
          options |-> <<[optionName |-> POSITIVE_ANSWER],
                        [optionName |-> NEGATIVE_ANSWER]>>]

\* names of the required variables whose value is empty
MissingVars(e) ==
    {n \in {"GREENAPI_INSTANCE_ID", "GREENAPI_API_TOKEN", "CHAT_ID",
            "SANITY_SCHEDULE_URL"} : e[n] = ""}

validate_environment(e) == MissingVars(e) = {}

(* ------------------------------ the run -------------------------------- *)
\* the process ended: its exit code, the statement that ended it and the error
\* text main printed just before
Exit(code, via, msg) == [tag |-> "exit", code |-> code, via |-> via, msg |-> msg]

Init ==
    /\ env \in Envs
    /\ sanity \in Docs(MaxFetched, StartTimes)
    /\ pc = "validate"
    /\ current_date = Unset
    /\ current_day = Unset
    /\ schedule_data = Unset
    /\ result = Unset
    /\ url = Unset
    /\ message = Unset
    /\ payload = Unset
    /\ gets = 0
    /\ posts = 0
    /\ post_url = Unset
    /\ post_body = Unset
    /\ response = Unset
    /\ exit = Unset

\* main, lines 193-194
Validate ==
    /\ pc = "validate"
    /\ IF validate_environment(env)
       THEN pc' = "clock" /\ exit' = exit
       ELSE pc' = "exited" /\ exit' = Exit(1, "config", "Missing required environment variables")
    /\ UNCHANGED <<env, sanity, current_date, current_day, schedule_data, result, url,
                   message, payload, gets, posts, post_url, post_body, response>>

\* main, lines 196-197: the date and the weekday of the Helsinki wall clock
GetCurrentDate ==
    /\ pc = "clock"
    /\ \E d \in Dates, w \in WeekDays :
          /\ current_date' = Str(d)
          /\ current_day' = Str(w)
    /\ pc' = "fetch"
    /\ UNCHANGED <<env, sanity, schedule_data, result, url, message, payload, gets,
                   posts, post_url, post_body, response, exit>>

GetScheduleData_Retry ==
    /\ pc = "fetch"
    /\ \/ gets' = gets + 1 /\ schedule_data' = sanity
       \/ gets' = gets + 2 /\ schedule_data' = None
    /\ pc' = "check_data"
    /\ UNCHANGED <<env, sanity, current_date, current_day, result, url, message,
                   payload, posts, post_url, post_body, response, exit>>

\* main, lines 202-205, and get_schedule_data: one GET, answered with the
\* document the store holds; a transport error or a non-2xx status is a
\* RequestException and yields None
GetScheduleData ==
    /\ pc = "fetch"
    /\ IF USE_SAMPLE_RESPONSE
       THEN schedule_data' = SAMPLE_RESPONSE /\ gets' = gets
       ELSE /\ gets' = gets + 1
            /\ \/ schedule_data' = sanity
               \/ schedule_data' = None
    /\ pc' = "check_data"
    /\ UNCHANGED <<env, sanity, current_date, current_day, result, url, message,
                   payload, posts, post_url, post_body, response, exit>>

CheckScheduleData_ExitZero ==
    /\ pc = "check_data"
    /\ IF schedule_data = None
       THEN pc' = "exited" /\ exit' = Exit(0, "fetch", "Failed to fetch schedule from Sanity")
       ELSE pc' = "resolve" /\ exit' = exit
    /\ UNCHANGED <<env, sanity, current_date, current_day, schedule_data, result, url,
                   message, payload, gets, posts, post_url, post_body, response>>

\* main, lines 207-208
CheckScheduleData ==
    /\ pc = "check_data"
    /\ IF schedule_data = None
       THEN pc' = "exited" /\ exit' = Exit(1, "fetch", "Failed to fetch schedule from Sanity")
       ELSE pc' = "resolve" /\ exit' = exit
    /\ UNCHANGED <<env, sanity, current_date, current_day, schedule_data, result, url,
                   message, payload, gets, posts, post_url, post_body, response>>

\* main, line 210
Resolve ==
    /\ pc = "resolve"
    /\ result' = get_message_for_current_day(schedule_data, current_date.val,
                                             current_day.val, env)
    /\ pc' = "check_result"
    /\ UNCHANGED <<env, sanity, current_date, current_day, schedule_data, url, message,
                   payload, gets, posts, post_url, post_body, response, exit>>

\* url, message = result (line 214): a 2-tuple unpacks; a str unpacks into its
\* characters when it has exactly two of them and raises ValueError otherwise
Unpacks(r) == r.tag = "tuple" \/ (r.tag = "str" /\ Len(r.val) = 2)
UnpackFst(r) == IF r.tag = "tuple" THEN r.fst ELSE Str(SubSeq(r.val, 1, 1))
UnpackSnd(r) == IF r.tag = "tuple" THEN r.snd ELSE Str(SubSeq(r.val, 2, 2))

CheckResult_NoneIsError ==
    /\ pc = "check_result"
    /\ IF ~Unpacks(result)
       THEN /\ pc' = "exited"
            /\ exit' = Exit(1, "ValueError", "")
            /\ UNCHANGED <<url, message>>
       ELSE /\ url' = UnpackFst(result)
            /\ message' = UnpackSnd(result)
            /\ IF message' = Str(MESSAGE_ERROR)
               THEN pc' = "exited" /\ exit' = Exit(1, "data-error", MESSAGE_ERROR)
               ELSE pc' = "build" /\ exit' = exit
    /\ UNCHANGED <<env, sanity, current_date, current_day, schedule_data, result,
                   payload, gets, posts, post_url, post_body, response>>

\* main, lines 211-218
CheckResult ==
    /\ pc = "check_result"
    /\ IF result = None
       THEN /\ pc' = "exited"
            /\ exit' = Exit(0, "nothing", "")
            /\ UNCHANGED <<url, message>>
       ELSE IF ~Unpacks(result)
       THEN \* uncaught ValueError: traceback, interpreter exit status 1
            /\ pc' = "exited"
            /\ exit' = Exit(1, "ValueError", "")
            /\ UNCHANGED <<url, message>>
       ELSE /\ url' = UnpackFst(result)
            /\ message' = UnpackSnd(result)
            /\ IF message' = Str(MESSAGE_ERROR)
               THEN pc' = "exited" /\ exit' = Exit(1, "data-error", MESSAGE_ERROR)
               ELSE pc' = "build" /\ exit' = exit
    /\ UNCHANGED <<env, sanity, current_date, current_day, schedule_data, result,
                   payload, gets, posts, post_url, post_body, response>>

\* main, line 223
BuildPayload ==
    /\ pc = "build"
    /\ payload' = build_payload(message, env)
    /\ pc' = "send"
    /\ UNCHANGED <<env, sanity, current_date, current_day, schedule_data, result, url,
                   message, gets, posts, post_url, post_body, response, exit>>

\* requests refuses a URL without a scheme (MissingSchema, a RequestException)
\* before anything is sent
HasScheme(u) == Len(u) >= 4 /\ SubSeq(u, 1, 4) = "http"

\* main, lines 224-234, and send_message: one POST; raise_for_status turns a
\* non-2xx status into an HTTPError that carries the response
SendMessage ==
    /\ pc = "send"
    /\ IF ~HasScheme(url.val)
       THEN /\ response' = Str("MissingSchema")
            /\ UNCHANGED <<posts, post_url, post_body>>
            /\ exit' = Exit(1, "send-error", "Failed to send poll")
       ELSE /\ posts' = posts + 1
            /\ post_url' = url
            /\ post_body' = payload
            /\ \/ response' = Str("2xx") /\ exit' = Exit(0, "return", "")
               \/ /\ response' \in {Str("non-2xx"), Str("transport-error")}
                  /\ exit' = Exit(1, "send-error", "Failed to send poll")
    /\ pc' = "exited"
    /\ UNCHANGED <<env, sanity, current_date, current_day, schedule_data, result, url,
                   message, payload, gets>>

Next ==
    \/ Validate
    \/ GetCurrentDate
    \/ GetScheduleData
    \/ CheckScheduleData
    \/ Resolve
    \/ CheckResult
    \/ BuildPayload
    \/ SendMessage

Spec == Init /\ [][Next]_vars

\* the script is one sequential thread and both HTTP calls carry a timeout:
\* a run that can take a step takes it
FairSpec == Spec /\ WF_vars(Next)

(* ------------------- the resolver on its own --------------------------- *)
\* a complete configuration
FullEnv ==
    [GREENAPI_URL |-> "https://api.green-api.com", GREENAPI_INSTANCE_ID |-> "1101",
     GREENAPI_API_TOKEN |-> "tok", CHAT_ID |-> "12036@g.us",
     SANITY_SCHEDULE_URL |-> "https://sanity.io/q"]

ResolverTimes == {"18:00", "12:00"}

\* get_message_for_current_day applied to every document, date and weekday
ResolverInit ==
    /\ env = FullEnv
    /\ sanity \in Docs(MaxEntries, ResolverTimes)
    /\ pc = "resolve"
    /\ current_date \in {Str(d) : d \in Dates}
    /\ current_day \in {Str(w) : w \in WeekDays}
    /\ schedule_data = sanity
    /\ result = Unset
    /\ url = Unset
    /\ message = Unset
    /\ payload = Unset
    /\ gets = 0
    /\ posts = 0
    /\ post_url = Unset
    /\ post_body = Unset
    /\ response = Unset
    /\ exit = Unset

ResolverNext == Resolve

ResolverSpec == ResolverInit /\ [][ResolverNext]_vars

(* ----------------- the payload builder on its own ---------------------- *)
Words == {CANCEL_TEXT, EXCEPTION_TEXT, STANDARD_TEXT, MESSAGE_ERROR, " ", "18:00?"}

RECURSIVE Concat(_)
Concat(ws) == IF ws = <<>> THEN "" ELSE Head(ws) \o Concat(Tail(ws))

\* None and every text of at most MaxWords words
PayloadMessages ==
    {None} \cup {Str(Concat(ws)) : ws \in SeqsUpTo(Words, MaxWords)}

\* build_payload applied to every message under every chat id
PayloadInit ==
    /\ env \in {e \in Envs : e.GREENAPI_URL # "" /\ e.SANITY_SCHEDULE_URL # ""}
    /\ sanity = [query |-> "allDays"]
    /\ pc = "build"
    /\ message \in PayloadMessages
    /\ current_date = Unset
    /\ current_day = Unset
    /\ schedule_data = Unset
    /\ result = Unset
    /\ url = Unset
    /\ payload = Unset
    /\ gets = 0
    /\ posts = 0
    /\ post_url = Unset
    /\ post_body = Unset
    /\ response = Unset
    /\ exit = Unset

PayloadNext == BuildPayload

PayloadSpec == PayloadInit /\ [][PayloadNext]_vars

(* ------------------------------ claims --------------------------------- *)
\* the fetched value is a JSON document (not None, not unassigned)
IsDoc == "query" \in DOMAIN schedule_data
HasResult == IsDoc /\ "result" \in DOMAIN schedule_data /\ Len(schedule_data.result) > 0
MissingResult == IsDoc /\ ~HasResult
TodayDays == schedule_data.result[1]
CanceledToday ==
    \E i \in 1..Len(TodayDays.canceledDays) :
        TodayDays.canceledDays[i].date = current_date.val
ExceptionToday ==
    \E i \in 1..Len(TodayDays.exceptionDays) :
        TodayDays.exceptionDays[i].date = current_date.val
TrainingToday ==
    \E i \in 1..Len(TodayDays.trainingDays) :
        TodayDays.trainingDays[i].weekDay.key = current_day.val
Resolved == pc = "check_result" /\ HasResult

\* the five settings the specification requires
RequiredSettings ==
    {"GREENAPI_URL", "GREENAPI_INSTANCE_ID", "GREENAPI_API_TOKEN", "CHAT_ID",
     "SANITY_SCHEDULE_URL"}
ConfigComplete == \A n \in RequiredSettings : env[n] # ""

IsPlainPayload(p) == DOMAIN p = {"chatId", "message"}
IsPollPayload(p) ==
    /\ DOMAIN p = {"chatId", "message", "multipleAnswers", "options"}
    /\ p.multipleAnswers = FALSE
    /\ p.options = <<[optionName |-> "Kyllä"], [optionName |-> "Ei"]>>

\* C1: when today's date is the date of some canceledDays entry, the resolver
\* returns the cancellation text with the sendMessage endpoint, whatever the
\* exceptionDays and trainingDays hold.
C1_CancellationWins ==
    (Resolved /\ CanceledToday)
        => result = Tuple2(Str(API_URL_MESSAGE(env)), Str(CANCEL_TEXT))

\* a cancellation, an exception and a training day all match today
C1_Witness ==
    /\ Resolved
    /\ CanceledToday /\ ExceptionToday /\ TrainingToday
    /\ result = Tuple2(Str(API_URL_MESSAGE(env)), Str(CANCEL_TEXT))

\* C2: with no cancellation today and some exceptionDays entry on today's date,
\* the resolver returns the sendPoll endpoint and the exception poll text with
\* the startTime of the first such entry, whatever trainingDays holds.
C2_FirstExceptionPoll ==
    (Resolved /\ ~CanceledToday /\ ExceptionToday)
        => \E i \in 1..Len(TodayDays.exceptionDays) :
              /\ TodayDays.exceptionDays[i].date = current_date.val
              /\ \A j \in 1..(i - 1) : TodayDays.exceptionDays[j].date # current_date.val
              /\ result = Tuple2(Str(API_URL_POLL(env)),
                    Str(EXCEPTION_TEXT \o " " \o STANDARD_TEXT \o " "
                        \o TodayDays.exceptionDays[i].startTime \o "?"))

\* two exceptions with different start times match today, and so does a training day
C2_Witness ==
    /\ Resolved /\ ~CanceledToday /\ TrainingToday
    /\ Len(TodayDays.exceptionDays) = 2
    /\ TodayDays.exceptionDays[1].date = current_date.val
    /\ TodayDays.exceptionDays[2].date = current_date.val
    /\ TodayDays.exceptionDays[1].startTime # TodayDays.exceptionDays[2].startTime
    /\ result.snd = Str(EXCEPTION_TEXT \o " " \o STANDARD_TEXT \o " "
                        \o TodayDays.exceptionDays[1].startTime \o "?")

\* C3: with no cancellation and no exception today and some trainingDays entry
\* whose weekDay.key is today's weekday, the resolver returns the sendPoll
\* endpoint and the standard poll text with the startTime of the first such entry.
C3_FirstTrainingPoll ==
    (Resolved /\ ~CanceledToday /\ ~ExceptionToday /\ TrainingToday)
        => \E i \in 1..Len(TodayDays.trainingDays) :
              /\ TodayDays.trainingDays[i].weekDay.key = current_day.val
              /\ \A j \in 1..(i - 1) : TodayDays.trainingDays[j].weekDay.key # current_day.val
              /\ result = Tuple2(Str(API_URL_POLL(env)),
                    Str(STANDARD_TEXT \o " "
                        \o TodayDays.trainingDays[i].startTime \o "?"))

\* the first training day is another weekday's, the second is today's
C3_Witness ==
    /\ Resolved /\ ~CanceledToday /\ ~ExceptionToday
    /\ Len(TodayDays.trainingDays) = 2
    /\ TodayDays.trainingDays[1].weekDay.key # current_day.val
    /\ TodayDays.trainingDays[2].weekDay.key = current_day.val
    /\ TodayDays.trainingDays[1].startTime # TodayDays.trainingDays[2].startTime
    /\ result.snd = Str(STANDARD_TEXT \o " "
                        \o TodayDays.trainingDays[2].startTime \o "?")

\* complete configuration, a fetched document with a non-empty result, nothing today
C4_Case ==
    /\ ConfigComplete
    /\ HasResult
    /\ ~CanceledToday /\ ~ExceptionToday /\ ~TrainingToday

\* C4: with a complete configuration and a fetched document with a non-empty
\* result in which nothing matches today, the resolver yields no message, no
\* POST is ever issued and the run ends with exit code 0.
C4_NothingTodayExitsZero ==
    /\ [](C4_Case =>
            /\ posts = 0 /\ post_url = Unset
            /\ pc \in {"check_data", "resolve", "check_result", "exited"}
            /\ (pc \in {"check_result", "exited"} => result = None)
            /\ (pc = "exited" => exit.code = 0 /\ exit.via = "nothing"))
    /\ (C4_Case ~> (pc = "exited" /\ exit.code = 0))

C4_Witness ==
    /\ C4_Case
    /\ Len(TodayDays.trainingDays) > 0
    /\ pc = "exited" /\ exit.code = 0 /\ posts = 0

\* C5: a fetched document without the result field, or with an empty result,
\* ends the run through main's data-error branch: the invalid-schedule-data
\* text is reported, the exit code is 1 and no POST is issued.
C5_DataErrorBranch ==
    (pc = "exited" /\ MissingResult)
        => /\ exit.code = 1
           /\ exit.via = "data-error"
           /\ exit.msg = MESSAGE_ERROR
           /\ posts = 0

\* C6: when any of the five required settings is empty, no GET and no POST is
\* ever issued and the run exits with code 1 straight from the validation.
C6_MissingSettingExitsBeforeNetwork ==
    (\E n \in RequiredSettings : env[n] = "")
        => /\ gets = 0
           /\ posts = 0
           /\ (pc # "validate" => pc = "exited" /\ exit.code = 1)

\* C7: build_payload returns no payload for a null message, exactly the chat id
\* and the text for the cancellation text, and for any other message the chat
\* id, the message, multipleAnswers = false and the two options Kyllä, Ei.
C7_BuildPayload ==
    pc = "send"
        => IF message = None
           THEN payload = None
           ELSE IF message.val = CANCEL_TEXT
           THEN payload = [chatId |-> env.CHAT_ID, message |-> CANCEL_TEXT]
           ELSE /\ DOMAIN payload = {"chatId", "message", "multipleAnswers", "options"}
                /\ payload.chatId = env.CHAT_ID
                /\ payload.message = message.val
                /\ payload.multipleAnswers = FALSE
                /\ Len(payload.options) = 2
                /\ payload.options[1] = [optionName |-> "Kyllä"]
                /\ payload.options[2] = [optionName |-> "Ei"]

\* a message that only starts with the cancellation text gets the poll payload
C7_Witness ==
    /\ pc = "send"
    /\ message = Str(CANCEL_TEXT \o " ")
    /\ IsPollPayload(payload)

C9_NetworkOrder ==
    /\ gets <= 1
    /\ posts <= 1
    /\ (posts > 0 =>
            /\ gets = 1
            /\ IsDoc
            /\ result.tag = "tuple"
            /\ post_url = result.fst)
    /\ (schedule_data = None =>
            /\ gets = 1
            /\ posts = 0
            /\ pc \in {"check_data", "exited"}
            /\ (pc = "exited" => exit.code = 1))

C9_Witness ==
    /\ pc = "exited"
    /\ gets = 1
    /\ posts = 1
    /\ response = Str("non-2xx")

\* C10: a POST goes to the sendMessage endpoint exactly when its body is the
\* plain two-field payload, and to the sendPoll endpoint exactly when its body
\* carries the two options and multipleAnswers = false.
C10_EndpointMatchesPayload ==
    posts > 0 =>
        /\ post_url \in {Str(API_URL_MESSAGE(env)), Str(API_URL_POLL(env))}
        /\ (post_url = Str(API_URL_MESSAGE(env)) <=> IsPlainPayload(post_body))
        /\ (post_url = Str(API_URL_POLL(env)) <=> IsPollPayload(post_body))

\* a poll whose start-time string is the cancellation text itself
C10_Witness ==
    /\ posts > 0
    /\ post_url = Str(API_URL_POLL(env))
    /\ post_body.message = STANDARD_TEXT \o " " \o CANCEL_TEXT \o "?"
    /\ IsPollPayload(post_body)

====
